---- MODULE Spec2Model ----
(***************************************************************************)
(* Model of inspect() of tools.py: the member classifier, the docstring    *)
(* summarizer getdetail(), the column folder fold() and the renderer.      *)
(*                                                                         *)
(* A Python str is a sequence of one-character strings.  An exception that *)
(* leaves a function is the record field exc, "none" when it returned.     *)
(***************************************************************************)
EXTENDS Integers, Sequences, FiniteSets, TLC

VARIABLES pc, detail, width, doc, ret, prev, names, folded,
          object, queue, properties, methods, types, modules, out, exc

vars == <<pc, detail, width, doc, ret, prev, names, folded,
          object, queue, properties, methods, types, modules, out, exc>>

(***************************************************************************)
(* Bounds of the checked instances.                                        *)
(***************************************************************************)
MaxBlocks == 3
MaxWidth == 4
NegWidth == 1
MaxDetail == 3
MaxNames == 3
MaxFoldWidth == 9
MaxMembers == 2
MaxInspectWidth == 12

(***************************************************************************)
(* Characters and the str methods the code uses.                           *)
(***************************************************************************)
NL == "\n"
SP == " "

IsSpace(c) == c \in {SP, NL}

Min(a, b) == IF a < b THEN a ELSE b

Max(a, b) == IF a > b THEN a ELSE b

\* s[:i] with Python's slice semantics: a negative i counts from the end.
SliceTo(s, i) ==
    IF i >= 0 THEN SubSeq(s, 1, Min(i, Len(s)))
    ELSE SubSeq(s, 1, Max(Len(s) + i, 0))

\* s[i:] for i >= 0 (0-based).
SliceFrom(s, i) == SubSeq(s, i + 1, Len(s))

RECURSIVE LStrip(_)
LStrip(s) == IF s # <<>> /\ IsSpace(Head(s)) THEN LStrip(Tail(s)) ELSE s

RECURSIVE RStrip(_)
RStrip(s) ==
    IF s # <<>> /\ IsSpace(s[Len(s)]) THEN RStrip(SubSeq(s, 1, Len(s) - 1)) ELSE s

\* str.strip()
Strip(s) == RStrip(LStrip(s))

StartsWith(s, p) == Len(s) >= Len(p) /\ SubSeq(s, 1, Len(p)) = p

\* str.find(sub): the 0-based offset of the first occurrence, -1 when absent.
RECURSIVE FindFrom(_, _, _)
FindFrom(s, sub, i) ==
    IF i + Len(sub) > Len(s) THEN -1
    ELSE IF SubSeq(s, i + 1, i + Len(sub)) = sub THEN i
    ELSE FindFrom(s, sub, i + 1)

Find(s, sub) == FindFrom(s, sub, 0)

Contains(s, sub) == Find(s, sub) >= 0

\* str.replace(old, new): left to right, non-overlapping, a single pass.
RECURSIVE Replace(_, _, _)
Replace(s, old, new) ==
    IF s = <<>> THEN <<>>
    ELSE IF StartsWith(s, old) THEN new \o Replace(SliceFrom(s, Len(old)), old, new)
    ELSE <<Head(s)>> \o Replace(Tail(s), old, new)

\* str.split(sep) with an explicit separator: always at least one piece.
RECURSIVE Split(_, _)
Split(s, sep) ==
    LET i == Find(s, sep)
    IN IF i < 0 THEN <<s>>
       ELSE <<SliceTo(s, i)>> \o Split(SliceFrom(s, i + Len(sep)), sep)

\* The first whitespace-delimited token of a string that starts with one.
RECURSIVE Token(_)
Token(s) ==
    IF s = <<>> \/ IsSpace(Head(s)) THEN <<>> ELSE <<Head(s)>> \o Token(Tail(s))

\* str.split() without separator: the whitespace-delimited tokens, none for
\* a blank string.
RECURSIVE Tokens(_)
Tokens(s) ==
    LET t == LStrip(s)
    IN IF t = <<>> THEN <<>>
       ELSE <<Token(t)>> \o Tokens(SliceFrom(t, Len(Token(t))))

\* sep.join(parts)
RECURSIVE Join(_, _)
Join(parts, sep) ==
    IF parts = <<>> THEN <<>>
    ELSE IF Len(parts) = 1 THEN parts[1]
    ELSE parts[1] \o sep \o Join(Tail(parts), sep)

\* str.ljust(size)
RECURSIVE LJust(_, _)
LJust(s, size) == IF Len(s) >= size THEN s ELSE LJust(s \o <<SP>>, size)

\* Code points of the characters in use, for Python's ordering of str.
Ord(c) ==
    CASE c = NL -> 10 [] c = SP -> 32 [] c = "'" -> 39 [] c = "(" -> 40
      [] c = "-" -> 45 [] c = "." -> 46 [] c = "1" -> 49 [] c = ":" -> 58
      [] c = "<" -> 60 [] c = "=" -> 61 [] c = ">" -> 62 [] c = "B" -> 66
      [] c = "\\" -> 92 [] c = "_" -> 95 [] c = "a" -> 97 [] c = "b" -> 98
      [] c = "c" -> 99 [] c = "d" -> 100 [] c = "e" -> 101 [] c = "f" -> 102
      [] c = "g" -> 103 [] c = "h" -> 104 [] c = "i" -> 105 [] c = "k" -> 107
      [] c = "m" -> 109 [] c = "n" -> 110 [] c = "o" -> 111 [] c = "p" -> 112
      [] c = "r" -> 114 [] c = "s" -> 115 [] c = "t" -> 116 [] c = "w" -> 119
      [] c = "x" -> 120 [] c = "y" -> 121 [] c = "z" -> 122

\* s < t for two str.
RECURSIVE StrLess(_, _)
StrLess(s, t) ==
    IF t = <<>> THEN FALSE
    ELSE IF s = <<>> THEN TRUE
    ELSE IF Head(s) = Head(t) THEN StrLess(Tail(s), Tail(t))
    ELSE Ord(Head(s)) < Ord(Head(t))

(***************************************************************************)
(* getdetail(object, detail, width): the docstring of one object at a      *)
(* level of detail.  doc is what getdoc(object) returned: absent (None) or *)
(* a text.                                                                 *)
(***************************************************************************)
Placeholder ==
    <<"<", "e", "m", "p", "t", "y", " ", "d", "o", "c", "s", "t", "r", "i", "n", "g", ">">>

Ellipsis == <<".", ".", ".">>

Indent == <<NL, SP, SP>>

Returned(v) == [exc |-> "none", val |-> v]

Raised(e) == [exc |-> e, val |-> <<>>]

NoDoc == [present |-> FALSE, text |-> <<>>]

DocOf(t) == [present |-> TRUE, text |-> t]

\* doc.strip() if doc else '<empty docstring>': None and '' are both falsy.
CleanDoc(d) == IF d.present /\ d.text # <<>> THEN Strip(d.text) ELSE Placeholder

\* A line the pattern ^[-=]{3,}$ matches.
IsHeaderMark(line) ==
    Len(line) >= 3 /\ \A i \in 1..Len(line) : line[i] \in {"-", "="}

\* The substitution without re.MULTILINE: ^ and $ are the ends of the text.
RemoveHeaderMarksOneLine(d) == IF IsHeaderMark(d) THEN <<>> ELSE d

\* re.sub(r'^[-=]{3,}$', '', doc, flags=re.MULTILINE): the matched lines are
\* emptied, their line breaks stay.
RemoveHeaderMarks(d) ==
    LET lines == Split(d, <<NL>>)
    IN Join([i \in 1..Len(lines) |->
                IF IsHeaderMark(lines[i]) THEN <<>> ELSE lines[i]], <<NL>>)

\* A loop that discards the first block only.
ForBlockOnce(blocks, i) ==
    IF Tokens(blocks[i]) = <<>> THEN Raised("IndexError")
    ELSE IF ~Contains(Tokens(blocks[i])[1], <<"(">>) THEN Returned(blocks[i])
    ELSE IF i = Len(blocks) THEN Returned(blocks[i])
    ELSE IF Tokens(blocks[i + 1]) = <<>> THEN Raised("IndexError")
    ELSE Returned(blocks[i + 1])

\* '(' not in block.split()[0]
NoSignature(block) == ~Contains(Tokens(block)[1], <<"(">>)

\* The for loop over the blocks, from block i on: block.split()[0] raises
\* IndexError on a blank block; the loop breaks at the first block whose first
\* token holds no '('; when it runs out, block stays bound to the last one.
RECURSIVE ForBlock(_, _)
ForBlock(blocks, i) ==
    IF Tokens(blocks[i]) = <<>> THEN Raised("IndexError")
    ELSE IF NoSignature(blocks[i]) THEN Returned(blocks[i])
    ELSE IF i = Len(blocks) THEN Returned(blocks[i])
    ELSE ForBlock(blocks, i + 1)

\* The detail == 3 return: blank lines collapsed in one pass, lines indented.
WholeDoc(d) == Replace(Replace(d, <<NL, NL>>, <<NL>>), <<NL>>, Indent) \o <<NL>>

\* The index for truncation of a block.
TruncIndex(block, w) ==
    IF ~Contains(block, <<NL>>) THEN w ELSE Min(w, Find(block, <<NL>>))

\* The two returns that follow the loop.
Summarize(block, lvl, w) ==
    IF lvl = 2 THEN Replace(block, <<NL>>, Indent)
    ELSE LET index == TruncIndex(block, w)
         IN SliceTo(block, index) \o (IF Len(block) > index THEN Ellipsis ELSE <<>>)

getdetail(d, lvl, w) ==
    LET text == CleanDoc(d)
    IN IF lvl = 3 THEN Returned(WholeDoc(text))
       ELSE LET found == ForBlock(Split(RemoveHeaderMarks(text), <<NL, NL>>), 1)
            IN IF found.exc # "none" THEN found
               ELSE Returned(Summarize(found.val, lvl, w))

(***************************************************************************)
(* Idle values of the variables an operation does not use.                 *)
(***************************************************************************)
NoRet == Raised("unset")

NoObject ==
    [hasname |-> FALSE, name |-> "", callerkeys |-> <<>>, otype |-> "", doc |-> NoDoc,
     members |-> {}]

DetailIdle ==
    /\ doc = NoDoc /\ ret = NoRet /\ prev = NoRet

FoldIdle ==
    /\ names = <<>> /\ folded = NoRet

InspectIdle ==
    /\ object = NoObject /\ queue = <<>> /\ properties = <<>> /\ methods = <<>>
    /\ types = <<>> /\ modules = <<>> /\ out = <<>> /\ exc = "none"

(***************************************************************************)
(* getdetail on its own: every text made of at most MaxBlocks blocks, at   *)
(* every level and width.                                                  *)
(***************************************************************************)
Blocks ==
    { <<"a", "(">>, <<"a", "a", "a">>, <<"-", "-", "-">>, <<>>,
      <<"a", NL, "a">>, <<NL, "a">>, <<"a", SP, "(">>, <<"-", "-", "-", NL, "a">> }

DocTexts ==
    { Join(bs, <<NL, NL>>) : bs \in UNION { [1..n -> Blocks] : n \in 1..MaxBlocks } }

DocInputs == {NoDoc} \cup { DocOf(t) : t \in DocTexts }

DetailLevels == 0..MaxDetail

Widths == (0 - NegWidth)..MaxWidth

InitDetail ==
    /\ pc = "call"
    /\ doc \in DocInputs
    /\ detail \in DetailLevels
    /\ width \in Widths
    /\ ret = NoRet /\ prev = NoRet
    /\ FoldIdle /\ InspectIdle

CallGetdetail ==
    /\ pc = "call"
    /\ ret' = getdetail(doc, detail, width)
    /\ pc' = IF ret'.exc = "none" THEN "returned" ELSE "raised"
    /\ UNCHANGED <<detail, width, doc, prev, names, folded, object, queue,
                   properties, methods, types, modules, out, exc>>

\* The indentation of a level-3 text taken off again.
StripIndent(t) == Replace(t, Indent, <<NL>>)

\* A level-3 text handed back to getdetail as the documentation text.
Reapply ==
    /\ pc = "returned" /\ detail = 3 /\ prev = NoRet
    /\ prev' = ret
    /\ doc' = DocOf(StripIndent(ret.val))
    /\ pc' = "call"
    /\ UNCHANGED <<detail, width, ret, names, folded, object, queue,
                   properties, methods, types, modules, out, exc>>

NextDetail == CallGetdetail \/ Reapply

SpecDetail == InitDetail /\ [][NextDetail]_vars

(***************************************************************************)
(* fold(names, width): the names of the entries, left-justified in cells   *)
(* and folded into lines.  An entry is a list whose first item is a name.  *)
(***************************************************************************)
RECURSIVE Longest(_)
Longest(ns) ==
    IF Len(ns) = 1 THEN Len(ns[1]) ELSE Max(Len(ns[1]), Longest(Tail(ns)))

RECURSIVE Concat(_)
Concat(parts) == IF parts = <<>> THEN <<>> ELSE parts[1] \o Concat(Tail(parts))

\* names[p:p+n] for 0 <= p and 0 < n
Chunk(ns, p, n) == SubSeq(ns, p + 1, Min(p + n, Len(ns)))

\* range(0, count, n) for count > 0 and n # 0: empty when n < 0.
Range(count, n) ==
    IF n < 0 THEN <<>> ELSE [k \in 1..((count - 1) \div n + 1) |-> (k - 1) * n]

\* The last three lines of fold, for a cell of the given size.
FoldLines(ns, w, size) ==
    LET n == w \div size
        cells == [i \in 1..Len(ns) |-> LJust(ns[i], size)]
        starts == Range(Len(ns), n)
    IN IF n = 0 THEN Raised("ValueError")
       ELSE Returned(Join([r \in 1..Len(starts) |-> Concat(Chunk(cells, starts[r], n))],
                          <<NL>>))

\* The cell of a fold that forgets the padding of two.
foldUnpadded(entries, w) ==
    LET ns == [i \in 1..Len(entries) |-> entries[i][1]]
    IN IF ns = <<>> THEN Raised("ValueError") ELSE FoldLines(ns, w, Longest(ns))

\* max() of no names and range() with a step of 0 raise ValueError.
fold(entries, w) ==
    LET ns == [i \in 1..Len(entries) |-> entries[i][1]]
    IN IF ns = <<>> THEN Raised("ValueError") ELSE FoldLines(ns, w, Longest(ns) + 2)

(***************************************************************************)
(* fold on its own: every list of at most MaxNames names at every width.   *)
(***************************************************************************)
Labels == { <<"a">>, <<"b", "b">>, <<"c", "d", "e">> }

NameLists ==
    UNION { [1..n -> { <<l>> : l \in Labels }] : n \in 1..MaxNames }

FoldWidths == (0 - NegWidth)..MaxFoldWidth

InitFold ==
    /\ pc = "call"
    /\ names \in NameLists
    /\ width \in FoldWidths
    /\ folded = NoRet
    /\ detail = 0
    /\ DetailIdle /\ InspectIdle

CallFold ==
    /\ pc = "call" /\ names # <<>>
    /\ folded' = fold(names, width)
    /\ pc' = IF folded'.exc = "none" THEN "returned" ELSE "raised"
    /\ UNCHANGED <<detail, width, doc, ret, prev, names, object, queue,
                   properties, methods, types, modules, out, exc>>

NextFold == CallFold

SpecFold == InitFold /\ [][NextFold]_vars

(***************************************************************************)
(* inspect(object, detail, width).  A member of the object is a record:    *)
(* its name, whether it has __package__, __base__ and __call__, what       *)
(* getdoc gives for it, the name of its type and str(member).              *)
(***************************************************************************)
Member(n, p, b, c, d, t, v) ==
    [name |-> n, pkg |-> p, base |-> b, call |-> c, doc |-> d, mtype |-> t, sval |-> v]

StrType == <<"s", "t", "r">>

IntType == <<"i", "n", "t">>

\* sorted(getmembers(object)): the (name, member) pairs in the order of their
\* names, which are unique.
RECURSIVE SortMembers(_)
SortMembers(ms) ==
    IF ms = {} THEN <<>>
    ELSE LET first == CHOOSE m \in ms : \A o \in ms \ {m} : StrLess(m.name, o.name)
         IN <<first>> \o SortMembers(ms \ {first})

\* Python's order of two lists of str.
RECURSIVE ListLess(_, _)
ListLess(a, b) ==
    IF b = <<>> THEN FALSE
    ELSE IF a = <<>> THEN TRUE
    ELSE IF a[1] = b[1] THEN ListLess(Tail(a), Tail(b))
    ELSE StrLess(a[1], b[1])

\* sorted(properties)
RECURSIVE Sorted(_)
Sorted(es) ==
    IF es = <<>> THEN <<>>
    ELSE LET i == CHOOSE i \in 1..Len(es) :
                      \A j \in 1..Len(es) : j = i \/ es[j] = es[i] \/ ListLess(es[i], es[j])
         IN <<es[i]>> \o Sorted(SubSeq(es, 1, i - 1) \o SubSeq(es, i + 1, Len(es)))

\* A classifier that probes __call__ before __base__.
ClassifyCallFirst(m) ==
    IF m.name[1] = "_" THEN "skip"
    ELSE IF m.pkg THEN "module"
    ELSE IF m.call THEN "callable"
    ELSE IF m.base THEN "type"
    ELSE "data"

\* The chain of tests of the loop body.
Classify(m) ==
    IF m.name[1] = "_" THEN "skip"
    ELSE IF m.pkg THEN "module"
    ELSE IF m.base THEN "type"
    ELSE IF m.call THEN "callable"
    ELSE "data"

\* repr() of a str that holds neither a quote nor a non-printable character
\* other than the line break.
Repr(v) ==
    <<"'">> \o Replace(Replace(v, <<"\\">>, <<"\\", "\\">>), <<NL>>, <<"\\", "n">>) \o <<"'">>

\* pvalue after the truncation of long values.
Truncated(pvalue, pwidth) ==
    IF Len(pvalue) > pwidth
    THEN SliceTo(pvalue, pwidth) \o Ellipsis \o <<pvalue[Len(pvalue)]>>
    ELSE pvalue

\* pvalue after the if/else on its first character; pvalue is not empty.
Special(pvalue) ==
    IF pvalue[1] = "<" THEN Tokens(pvalue)[1] \o <<".", ".", ".", ">">>
    ELSE Strip(Replace(pvalue, <<NL>>, <<SP>>))

\* A value column that shows pvalue for a str as well.
ShownValueNoRepr(m, pvalue) == pvalue

\* The third item of the entry of a property.
ShownValue(m, pvalue) == IF m.mtype = StrType THEN Repr(m.sval) ELSE pvalue

\* The else branch of the loop body: pvalue[0] raises IndexError on '', and
\* so does pvalue[-1] when the value is blank and pwidth negative.
PropertyEntry(m, w) ==
    LET pwidth == w - Len(m.name \o m.mtype) - 4
    IN IF m.sval = <<>> THEN Raised("IndexError")
       ELSE IF Special(m.sval) = <<>> /\ 0 > pwidth THEN Raised("IndexError")
       ELSE Returned(<<m.name, m.mtype, ShownValue(m, Truncated(Special(m.sval), pwidth))>>)

\* The entry of a method or function.
MethodEntry(m, lvl, w) ==
    LET d == getdetail(m.doc, lvl, w - Len(m.name) - 4)
    IN IF d.exc # "none" THEN d ELSE Returned(<<m.name, d.val>>)

\* The name shown in the header.
ObjectName(o) ==
    IF o.hasname THEN o.name
    ELSE IF o.callerkeys # <<>> THEN o.callerkeys[1]
    ELSE "<empty name>"

\* groups, without the constant text of the prompt.
Groups(o) ==
    <<"MODULES", "TYPES">> \o
    (IF o.otype = "module" THEN <<"CONSTANTS", "FUNCTIONS">>
     ELSE <<"PROPERTIES", "METHODS">>)

Section(o, g, body) == [kind |-> "section", title |-> Groups(o)[g], body |-> body]

\* f"{name}:{type} = {value}"
PropertyLine(e) == e[1] \o <<":">> \o e[2] \o <<" ", "=", " ">> \o e[3]

\* f"{name} : {doc}"
MethodLine(e) == e[1] \o <<" ", ":", " ">> \o e[2]

InspectInputsUnchanged == UNCHANGED <<detail, width, object, doc, ret, prev, names, folded>>

\* Lines 70-75: the name, the type and the role, then the header.
Header ==
    /\ pc = "start"
    /\ LET role == getdetail(object.doc, 2, width - 8)
       IN IF role.exc # "none"
          THEN /\ pc' = "raised" /\ exc' = role.exc
               /\ UNCHANGED <<out, queue>>
          ELSE /\ out' = <<[kind |-> "header", name |-> ObjectName(object),
                            type |-> object.otype, role |-> Strip(role.val)]>>
               /\ queue' = SortMembers(object.members)
               /\ pc' = "loop"
               /\ exc' = exc
    /\ UNCHANGED <<properties, methods, types, modules>>
    /\ InspectInputsUnchanged

\* Lines 78-91: one pass of the loop over the members.
ClassifyMember ==
    /\ pc = "loop" /\ queue # <<>>
    /\ LET m == Head(queue)
           kind == Classify(m)
           entry == IF kind = "callable" THEN MethodEntry(m, detail, width)
                    ELSE IF kind = "data" THEN PropertyEntry(m, width)
                    ELSE Returned(<<m.name>>)
       IN IF entry.exc # "none"
          THEN /\ pc' = "raised" /\ exc' = entry.exc
               /\ UNCHANGED <<queue, properties, methods, types, modules>>
          ELSE /\ modules' = IF kind = "module" THEN Append(modules, entry.val) ELSE modules
               /\ types' = IF kind = "type" THEN Append(types, entry.val) ELSE types
               /\ methods' = IF kind = "callable" THEN Append(methods, entry.val) ELSE methods
               /\ properties' = IF kind = "data" THEN Append(properties, entry.val)
                                ELSE properties
               /\ queue' = Tail(queue)
               /\ UNCHANGED <<pc, exc>>
    /\ UNCHANGED out
    /\ InspectInputsUnchanged

\* One `if entries: print(...)` of lines 96-105: the section of group g with
\* the given body, or the exception the body raised.
Emit(g, entries, body, next) ==
    IF entries = <<>> THEN pc' = next /\ UNCHANGED <<out, exc>>
    ELSE IF body.exc # "none" THEN pc' = "raised" /\ exc' = body.exc /\ UNCHANGED out
    ELSE pc' = next /\ out' = Append(out, Section(object, g, body.val)) /\ exc' = exc

\* Line 96.
RenderModules ==
    /\ pc = "loop" /\ queue = <<>>
    /\ Emit(1, modules, fold(modules, width), "types")
    /\ UNCHANGED <<queue, properties, methods, types, modules>>
    /\ InspectInputsUnchanged

\* Line 97.
RenderTypes ==
    /\ pc = "types"
    /\ Emit(2, types, fold(types, width), "properties")
    /\ UNCHANGED <<queue, properties, methods, types, modules>>
    /\ InspectInputsUnchanged

\* Lines 99-100 when detail is truthy, line 104 otherwise.
RenderProperties ==
    /\ pc = "properties"
    /\ IF detail # 0
       THEN LET lines == [i \in 1..Len(properties) |-> PropertyLine(Sorted(properties)[i])]
            IN /\ properties' = lines
               /\ Emit(3, lines, Returned(Join(lines, <<NL>>)), "methods")
       ELSE /\ properties' = properties
            /\ Emit(3, properties, fold(properties, width), "methods")
    /\ UNCHANGED <<queue, methods, types, modules>>
    /\ InspectInputsUnchanged

\* Lines 101-102 when detail is truthy, line 105 otherwise.
RenderMethods ==
    /\ pc = "methods"
    /\ IF detail # 0
       THEN LET lines == [i \in 1..Len(methods) |-> MethodLine(methods[i])]
            IN /\ methods' = lines
               /\ Emit(4, lines, Returned(Join(lines, <<NL>>)), "done")
       ELSE /\ methods' = methods
            /\ Emit(4, methods, fold(methods, width), "done")
    /\ UNCHANGED <<queue, properties, types, modules>>
    /\ InspectInputsUnchanged

(***************************************************************************)
(* inspect on objects of at most MaxMembers members taken from a pool, at  *)
(* every level from -1 to MaxDetail + 1 and every width.                   *)
(***************************************************************************)
Text3 == <<"a", "a", "a">>

MarkFirst == <<"-", "-", "-", NL, NL, "a">>

Pool ==
    { Member(<<"B", "a", "r">>, FALSE, TRUE, TRUE, DocOf(Text3), <<"t", "y", "p", "e">>, <<"<", "c", ">">>),
      Member(<<"_", "h">>, FALSE, FALSE, FALSE, NoDoc, IntType, <<"1">>),
      Member(<<"f", "o", "o">>, FALSE, FALSE, TRUE, DocOf(<<"a", "(", NL, NL, "a", "a", "a", "a", NL, "a">>),
             <<"f">>, <<"<", "f", ">">>),
      Member(<<"g">>, FALSE, FALSE, TRUE, DocOf(MarkFirst), <<"f">>, <<"<", "f", ">">>),
      Member(<<"z">>, FALSE, FALSE, FALSE, NoDoc, <<"z">>, <<SP>>),
      Member(<<"x">>, TRUE, TRUE, TRUE, NoDoc, <<"x">>, <<"<", "x", ">">>),
      Member(<<"e">>, FALSE, FALSE, FALSE, NoDoc, StrType, <<>>),
      Member(<<"s">>, FALSE, FALSE, FALSE, NoDoc, StrType, <<"a", "a", NL, "a", "a", "a", "a">>),
      Member(<<"n">>, FALSE, FALSE, FALSE, NoDoc, IntType, <<"1", "1", "1", "1">>),
      Member(<<"w">>, FALSE, FALSE, FALSE, NoDoc, <<"w">>, <<SP, "a", NL, "a", NL>>),
      Member(<<"o">>, FALSE, FALSE, FALSE, NoDoc, <<"o">>, <<"<", "a", SP, "a", "a", "a", ">">>) }

Shell(h, n, k, t, d) == [hasname |-> h, name |-> n, callerkeys |-> k, otype |-> t, doc |-> d]

Shells ==
    { Shell(TRUE, "tools", <<>>, "module", DocOf(Text3)),
      Shell(TRUE, "B", <<>>, "type", NoDoc),
      Shell(FALSE, "", <<"b">>, "B", DocOf(MarkFirst)),
      Shell(FALSE, "", <<>>, "B", DocOf(<<"a", "(", NL, NL, "a", NL, "a">>)) }

Objects ==
    { [hasname |-> sh.hasname, name |-> sh.name, callerkeys |-> sh.callerkeys,
       otype |-> sh.otype, doc |-> sh.doc, members |-> ms] :
      sh \in Shells, ms \in { S \in SUBSET Pool : Cardinality(S) <= MaxMembers } }

InspectLevels == (0 - 1)..(MaxDetail + 1)

InspectWidths == (0 - NegWidth)..MaxInspectWidth

InitInspect ==
    /\ pc = "start"
    /\ object \in Objects
    /\ detail \in InspectLevels
    /\ width \in InspectWidths
    /\ queue = <<>> /\ properties = <<>> /\ methods = <<>>
    /\ types = <<>> /\ modules = <<>> /\ out = <<>> /\ exc = "none"
    /\ DetailIdle /\ FoldIdle

NextInspect ==
    \/ Header
    \/ ClassifyMember
    \/ RenderModules
    \/ RenderTypes
    \/ RenderProperties
    \/ RenderMethods

SpecInspect == InitInspect /\ [][NextInspect]_vars

(***************************************************************************)
(* Properties of the classifier.                                           *)
(***************************************************************************)
Visible(ms) == { m \in ms : m.name[1] # "_" }

\* The members the loop has gone through.
Processed == object.members \ { queue[i] : i \in 1..Len(queue) }

NamesOf(entries) == { entries[i][1] : i \in 1..Len(entries) }

\* C1: while and after the classification loop, the four lists are pairwise
\* disjoint, hold no name twice, and together hold exactly the processed
\* members whose name does not begin with '_'; each member is in the list of
\* the first test it passes, in the order module, type, callable, data.
C1_Partition ==
    pc = "loop" =>
        LET done == Visible(Processed)
            lists == <<modules, types, methods, properties>>
        IN /\ \A i, j \in 1..4 : i # j => NamesOf(lists[i]) \cap NamesOf(lists[j]) = {}
           /\ UNION { NamesOf(lists[i]) : i \in 1..4 } = { m.name : m \in done }
           /\ Len(modules) + Len(types) + Len(methods) + Len(properties) = Cardinality(done)
           /\ \A m \in done :
                /\ m.name \in NamesOf(modules) <=> m.pkg
                /\ m.name \in NamesOf(types) <=> ~m.pkg /\ m.base
                /\ m.name \in NamesOf(methods) <=> ~m.pkg /\ ~m.base /\ m.call
                /\ m.name \in NamesOf(properties) <=> ~m.pkg /\ ~m.base /\ ~m.call

\* The loop is over for an object with a private member and a class, which
\* is both a type and a callable.
C1_Witness ==
    /\ pc = "loop" /\ queue = <<>>
    /\ \E m \in object.members : m.name[1] = "_"
    /\ \E m \in object.members : ~m.pkg /\ m.base /\ m.call /\ m.name \in NamesOf(types)

(***************************************************************************)
(* Properties of fold.                                                     *)
(***************************************************************************)
LabelOf(k) == names[k][1]

CellSize == Longest([k \in 1..Len(names) |-> LabelOf(k)]) + 2

Spaces(n) == [i \in 1..n |-> SP]

FoldedRows == Split(folded.val, <<NL>>)

\* Label k sits, padded, in cell c of row r when the rows have cols cells.
InCell(k, cols) ==
    LET r == (k - 1) \div cols + 1
        c == (k - 1) % cols
    IN /\ r <= Len(FoldedRows)
       /\ SubSeq(FoldedRows[r], c * CellSize + 1, (c + 1) * CellSize)
              = LabelOf(k) \o Spaces(CellSize - Len(LabelOf(k)))

\* The text holds the labels in order, once each, in rows of cols cells.
LaidOut(cols) ==
    /\ folded.exc = "none"
    /\ Len(FoldedRows) = (Len(names) + cols - 1) \div cols
    /\ \A r \in 1..Len(FoldedRows) :
           Len(FoldedRows[r]) = CellSize * Min(cols, Len(names) - (r - 1) * cols)
    /\ \A k \in 1..Len(names) : InCell(k, cols)

\* C2: for a width of at least the cell size (longest label + 2) the text
\* fold returns holds every label once, in order, left-justified and padded
\* to the cell size, in ceil(count / columns) rows of floor(width / cell
\* size) columns.
C2_FoldKeepsLabels ==
    (pc # "call" /\ names # <<>> /\ width >= CellSize) => LaidOut(width \div CellSize)

\* Three labels in two columns: a full row and a partial one.
C2_Witness ==
    /\ pc = "returned" /\ Len(names) = 3 /\ width \div CellSize = 2
    /\ Len(FoldedRows) = 2

\* C7: for a positive width below the cell size fold uses one column and
\* returns one padded label per row.
C7_NarrowWidthOneColumn ==
    (pc # "call" /\ names # <<>> /\ width > 0 /\ width < CellSize) => LaidOut(1)

(***************************************************************************)
(* Properties of getdetail.                                                *)
(***************************************************************************)
\* C3: at levels 0 and 1 the returned string is no longer than the width,
\* taken as 1 when it is not positive, plus the three characters of '...'.
C3_LengthWithinWidth ==
    (pc = "returned" /\ detail \in {0, 1}) => Len(ret.val) <= Max(width, 1) + Len(Ellipsis)

\* C4: level 3 applied to its own output, the indentation taken off, gives
\* that output again (at a positive width, which level 3 does not read).
C4_Level3Idempotent ==
    (pc = "returned" /\ detail = 3 /\ prev # NoRet /\ width >= 1) => ret = prev

HasMarkLine(t) ==
    LET lines == Split(t, <<NL>>) IN \E i \in 1..Len(lines) : IsHeaderMark(lines[i])

FirstLine(t) == Split(t, <<NL>>)[1]

\* C8 as stated: at every level, level 3 included, the returned string has
\* no line made only of three or more '-' or '=' (at a positive width).
C8_NoMarkAtAnyLevel ==
    (pc = "returned" /\ width >= 1) => ~HasMarkLine(ret.val)

\* C8: at levels 0, 1 and 2 the returned string has no line made only of
\* three or more '-' or '='; at level 3 the marks are not removed, and a
\* text whose first line is such a mark is returned with it.
C8_NoMarkBelowLevel3 ==
    /\ (pc = "returned" /\ detail \in 0..2) => ~HasMarkLine(ret.val)
    /\ (pc = "returned" /\ detail = 3 /\ IsHeaderMark(FirstLine(CleanDoc(doc))))
           => FirstLine(ret.val) = FirstLine(CleanDoc(doc))

\* A text that begins with a mark line, summarized at a level below 3.
C8_Witness ==
    /\ pc = "returned" /\ detail \in 0..2
    /\ IsHeaderMark(FirstLine(CleanDoc(doc)))
    /\ ret.val # <<>>

LeadingToken(b) == Token(LStrip(b))

HasParen(t) == \E i \in 1..Len(t) : t[i] = "("

\* The blocks getdetail goes through below level 3.
DocBlocks == Split(RemoveHeaderMarks(CleanDoc(doc)), <<NL, NL>>)

\* The blocks of b whose leading token has no '('.
Unsigned(b) == { i \in 1..Len(b) : ~HasParen(LeadingToken(b[i])) }

\* The first of them, or the last block when there is none.
FirstUnsigned(b) ==
    LET u == Unsigned(b)
    IN IF u = {} THEN b[Len(b)] ELSE b[CHOOSE i \in u : \A j \in u : i <= j]

\* C9 as stated: below level 3 the summarized block is the first block when
\* its leading token has no '(', and the second block otherwise (at a
\* positive width, and when there is a second block).
C9_OnlyFirstDiscarded ==
    (pc = "returned" /\ detail \in 0..2 /\ width >= 1) =>
        LET b == DocBlocks
        IN IF ~HasParen(LeadingToken(b[1]))
           THEN ret.val = Summarize(b[1], detail, width)
           ELSE Len(b) >= 2 => ret.val = Summarize(b[2], detail, width)

\* C9: below level 3, when getdetail returns, the summarized block is the
\* first block whose leading token has no '(', every block before it being
\* discarded, and the last block when every leading token has a '('.
C9_FirstUnsignedBlock ==
    (pc = "returned" /\ detail \in 0..2) =>
        ret.val = Summarize(FirstUnsigned(DocBlocks), detail, width)

\* Two signature blocks are discarded and the third block is summarized.
C9_Witness ==
    /\ pc = "returned" /\ detail \in 0..2
    /\ LET b == DocBlocks
       IN /\ Len(b) = 3
          /\ HasParen(LeadingToken(b[1])) /\ HasParen(LeadingToken(b[2]))
          /\ Unsigned(b) = {3}
          /\ ret.val = Summarize(b[3], detail, width)
          /\ ret.val # Summarize(b[2], detail, width)

(***************************************************************************)
(* Properties of inspect.                                                  *)
(***************************************************************************)
\* C5: at a level from 0 to 3 and a positive width inspect does not raise;
\* when it is done the header is out, and it is all there is for an object
\* with no visible member.
C5_NeverAborts ==
    (detail \in 0..MaxDetail /\ width >= 1) =>
        /\ pc # "raised"
        /\ pc = "done" =>
              /\ out # <<>> /\ out[1].kind = "header"
              /\ Visible(object.members) = {} => Len(out) = 1

\* C6: at a level outside 0..3 (and a positive width) inspect does not run
\* to its end and renders no section.
C6_InvalidLevelRejected ==
    (detail \notin 0..MaxDetail /\ width >= 1) =>
        /\ pc # "done"
        /\ \A i \in 1..Len(out) : out[i].kind # "section"

IsData(m) == m.name[1] # "_" /\ ~m.pkg /\ ~m.base /\ ~m.call

\* The data members in the order of their names.
DataMembers == SelectSeq(SortMembers(object.members), IsData)

RemainingWidth(m) == width - Len(m.name) - Len(m.mtype) - 4

\* The representation before the cut: the first token and '...>' when it
\* begins with '<', else line breaks as spaces, trimmed.
Base(m) ==
    IF m.sval[1] = "<" THEN Token(m.sval) \o <<".", ".", ".", ">">>
    ELSE Strip(Replace(m.sval, <<NL>>, <<SP>>))

Last(t) == <<t[Len(t)]>>

ValueOf(line, m) == SliceFrom(line, Len(m.name) + Len(m.mtype) + 4)

LineHead(line, m) ==
    StartsWith(line, m.name \o <<":">> \o m.mtype \o <<" ", "=", " ">>)

\* The value C10 states for a member.
StatedValue(m) ==
    IF m.sval[1] = "<" THEN Base(m)
    ELSE IF Len(Base(m)) > RemainingWidth(m)
    THEN SubSeq(Base(m), 1, RemainingWidth(m)) \o Ellipsis \o Last(Base(m))
    ELSE Base(m)

\* The value is the str between quotes, its line breaks written \n.
IsLiteralOf(value, v) ==
    /\ Len(value) >= 2 /\ value[1] = "'" /\ value[Len(value)] = "'"
    /\ LET inner == SubSeq(value, 2, Len(value) - 1)
       IN ~Contains(inner, <<NL>>) /\ Replace(inner, <<"\\", "n">>, <<NL>>) = v

\* The value the code shows: the literal of a str, uncut; for any other
\* member the representation before the cut when it fits the remaining
\* width, and else its slice [:remaining width], '...' and its last character.
ShownAsAmended(value, m) ==
    IF m.mtype = StrType THEN IsLiteralOf(value, m.sval)
    ELSE IF Len(Base(m)) <= RemainingWidth(m) THEN value = Base(m)
    ELSE IF RemainingWidth(m) >= 0
    THEN value = SubSeq(Base(m), 1, RemainingWidth(m)) \o Ellipsis \o Last(Base(m))
    ELSE value = SubSeq(Base(m), 1, Len(Base(m)) + RemainingWidth(m))
                     \o Ellipsis \o Last(Base(m))

PropertiesRendered == pc \in {"methods", "done"} /\ detail >= 1

\* C10 as stated: in detail mode every data member, a str included, is
\* shown with its representation, line breaks as spaces and trimmed, cut to
\* the remaining width with '...' and its last character when longer; a
\* representation that begins with '<' is shown as its first token and
\* '...>', never cut.  Taken for the members whose remaining width is not
\* negative.
C10_ValueAsStated ==
    PropertiesRendered =>
        /\ Len(properties) = Len(DataMembers)
        /\ \A k \in 1..Len(DataMembers) :
               /\ LineHead(properties[k], DataMembers[k])
               /\ RemainingWidth(DataMembers[k]) >= 0 =>
                      ValueOf(properties[k], DataMembers[k]) = StatedValue(DataMembers[k])

\* C10: in detail mode a data member that is a str is shown as its quoted
\* literal, never cut; any other data member is shown with its
\* representation (first token and '...>' when it begins with '<', else
\* line breaks as spaces, trimmed), cut in both cases to its slice
\* [:remaining width] followed by '...' and its last character when it is
\* longer than the remaining width.
C10_ValueAsShown ==
    PropertiesRendered =>
        /\ Len(properties) = Len(DataMembers)
        /\ \A k \in 1..Len(DataMembers) :
               /\ LineHead(properties[k], DataMembers[k])
               /\ ShownAsAmended(ValueOf(properties[k], DataMembers[k]), DataMembers[k])

\* A str with a line break next to a number longer than its remaining width.
C10_Witness ==
    /\ PropertiesRendered
    /\ \E k \in 1..Len(DataMembers) :
           /\ DataMembers[k].mtype = StrType
           /\ Contains(DataMembers[k].sval, <<NL>>)
    /\ \E k \in 1..Len(DataMembers) :
           /\ DataMembers[k].mtype = IntType
           /\ RemainingWidth(DataMembers[k]) >= 1
           /\ Len(Base(DataMembers[k])) > RemainingWidth(DataMembers[k])

====
